---------------------------- MODULE Spec2Model ----------------------------
(***************************************************************************)
(* Model of the voice-transcript expense extraction pipeline of            *)
(* backend/app/nlu/transcribe.py: transcribe_and_extract and the stages it *)
(* runs (text normalisation, amount extraction, payment-method, cost-      *)
(* center and category classification, installment scheduling), together   *)
(* with the lazily loaded transcription model.                              *)
(*                                                                         *)
(* Text is a sequence of one-character strings, so that Python's `in`,      *)
(* str.replace and the regular expressions of the source are modelled by   *)
(* what they do on characters.  Amounts are integers counting thousandths   *)
(* of a real (87.55 is 87550): one digit finer than the cent, so that      *)
(* rounding to two fractional digits is an operation that can be wrong.    *)
(* Due dates are day offsets from today.                                    *)
(***************************************************************************)
EXTENDS Integers, Sequences, FiniteSets, TLC

VARIABLES
  pc,                 \* position of the current call of transcribe_and_extract
  arg_cost_centers,   \* the caller's user_cost_centers argument
  arg_categories,     \* the caller's user_categories argument
  user_cost_centers,  \* the local name user_cost_centers (rebound by the defaults)
  user_categories,    \* the local name user_categories (rebound by the defaults)
  model_loaded,       \* the module global _model is not None
  load_count,         \* how many times whisper.load_model has run
  model_instance,     \* the instance _model refers to (0: None; k: the k-th loaded)
  callers,            \* the threads calling get_model: where each one is, what it
                      \* loaded and what it was returned
  transcript,         \* result["text"], what model.transcribe returned
  raw_text,           \* result["text"].strip()
  text,               \* the normalised text
  amount,             \* total amount, in thousandths
  payment_method,
  cost_center,
  category,
  installments_data,
  failed_stage,       \* the stage that raised, or "none"
  result              \* the returned record, or NoResult

vars == <<pc, arg_cost_centers, arg_categories, user_cost_centers,
          user_categories, model_loaded, load_count, model_instance, callers,
          transcript, raw_text, text,
          amount, payment_method, cost_center, category, installments_data,
          failed_stage, result>>

-----------------------------------------------------------------------------
(* Characters and strings                                                  *)

Digits == {"0", "1", "2", "3", "4", "5", "6", "7", "8", "9"}

IsDigit(c) == c \in Digits

\* int() of one digit character
DigitVal(c) ==
  CASE c = "0" -> 0 [] c = "1" -> 1 [] c = "2" -> 2 [] c = "3" -> 3
    [] c = "4" -> 4 [] c = "5" -> 5 [] c = "6" -> 6 [] c = "7" -> 7
    [] c = "8" -> 8 [] c = "9" -> 9

\* \s of the regular expressions and the characters str.strip() removes
IsSpace(c) == c = " "

\* \w of the regular expressions (letters, accented letters, digits and "_"):
\* everything of the alphabet used here except blank and punctuation
IsWordChar(c) == c \notin {" ", ",", ".", "%", "(", ")", "+", "\\"}

UpperToLower ==
  ("A" :> "a") @@ ("B" :> "b") @@ ("C" :> "c") @@ ("D" :> "d") @@
  ("E" :> "e") @@ ("F" :> "f") @@ ("G" :> "g") @@ ("H" :> "h") @@
  ("I" :> "i") @@ ("J" :> "j") @@ ("K" :> "k") @@ ("L" :> "l") @@
  ("M" :> "m") @@ ("N" :> "n") @@ ("O" :> "o") @@ ("P" :> "p") @@
  ("Q" :> "q") @@ ("R" :> "r") @@ ("S" :> "s") @@ ("T" :> "t") @@
  ("U" :> "u") @@ ("V" :> "v") @@ ("W" :> "w") @@ ("X" :> "x") @@
  ("Y" :> "y") @@ ("Z" :> "z") @@ ("Ã" :> "ã") @@ ("É" :> "é") @@
  ("Á" :> "á") @@ ("Ç" :> "ç")

\* str.lower(), character by character
LowerChar(c) == IF c \in DOMAIN UpperToLower THEN UpperToLower[c] ELSE c

Lower(s) == [i \in 1..Len(s) |-> LowerChar(s[i])]

\* str.strip(): leading and trailing whitespace removed
RECURSIVE LStrip(_)
LStrip(s) == IF s # <<>> /\ IsSpace(Head(s)) THEN LStrip(Tail(s)) ELSE s

RECURSIVE RStrip(_)
RStrip(s) ==
  IF s # <<>> /\ IsSpace(s[Len(s)]) THEN RStrip(SubSeq(s, 1, Len(s) - 1)) ELSE s

Strip(s) == RStrip(LStrip(s))

\* p occurs in s at position i
MatchAt(s, i, p) ==
  /\ i >= 1
  /\ i + Len(p) - 1 <= Len(s)
  /\ \A k \in 1..Len(p) : s[i + k - 1] = p[k]

\* Python's `p in s`
Contains(s, p) == \E i \in 1..(Len(s) - Len(p) + 1) : MatchAt(s, i, p)

\* any(word in s for word in words)
ContainsAny(s, words) == \E w \in words : Contains(s, w)

\* the position of the first occurrence of p in s at or after i, or 0
FirstAt(s, i, p) ==
  LET at == {j \in i..(Len(s) - Len(p) + 1) : MatchAt(s, j, p)}
  IN  IF at = {} THEN 0 ELSE CHOOSE j \in at : \A h \in at : j <= h

\* str.replace(old, new): every non-overlapping occurrence, left to right;
\* the search goes on after the text just put in, which is never searched
RECURSIVE ReplaceFrom(_, _, _, _)
ReplaceFrom(s, i, old, new) ==
  LET j == FirstAt(s, i, old)
  IN  IF j = 0 THEN s
      ELSE ReplaceFrom(SubSeq(s, 1, j - 1) \o new
                         \o SubSeq(s, j + Len(old), Len(s)),
                       j + Len(new), old, new)

Replace(s, old, new) == ReplaceFrom(s, 1, old, new)

\* the last position of the run of digits that starts at i (i - 1 when s[i]
\* is no digit): where a greedy \d+ started at i ends
RECURSIVE DigitRunEnd(_, _)
DigitRunEnd(s, i) ==
  IF i <= Len(s) /\ IsDigit(s[i]) THEN DigitRunEnd(s, i + 1) ELSE i - 1

\* the first position at or after i that holds no whitespace: where \s* ends
RECURSIVE SkipSpaces(_, _)
SkipSpaces(s, i) ==
  IF i <= Len(s) /\ IsSpace(s[i]) THEN SkipSpaces(s, i + 1) ELSE i

\* float() / int() of the digits s[i..j]
RECURSIVE NumVal(_, _, _)
NumVal(s, i, j) ==
  IF j < i THEN 0 ELSE 10 * NumVal(s, i, j - 1) + DigitVal(s[j])

\* the least element of a non-empty set of integers
Min(S) == CHOOSE x \in S : \A y \in S : x <= y

\* max() of a non-empty set of integers
Max(S) == CHOOSE x \in S : \A y \in S : x >= y

\* s[i], or "" when i is not a position of s
CharAt(s, i) == IF i >= 1 /\ i <= Len(s) THEN s[i] ELSE ""

-----------------------------------------------------------------------------
(* ultra_fast_text_processing                                              *)

\* The dict critical_fixes in insertion order, as <<wrong, correct>> pairs.
\* The loop applies each key with `in` and str.replace, so the four keys
\* written as regular expressions are literal strings like the others.
critical_fixes ==
  <<
    <<<<"g","a","s","t","e","i","o">>,
      <<"g","a","s","t","e","i">>>>,
    <<<<"i","n","i","n","s","u","m","o","s">>,
      <<"i","n","s","u","m","o","s">>>>,
    <<<<"i","n","s","u","m","o","s">>,
      <<"i","n","s","u","m","o","s">>>>,
    <<<<"c","a","t","ã","o">>,
      <<"c","a","r","t","ã","o">>>>,
    <<<<"v","e","z","e","s","s">>,
      <<"v","e","z","e","s">>>>,
    <<<<"d","a","s","t","e","i","o">>,
      <<"g","a","s","t","e","i">>>>,
    <<<<"c","o","m","p","r","a","d","i","r">>,
      <<"c","o","m","p","r","a","r">>>>,
    <<<<"m","a","n","u","t","e","n","ç","ã","o","o">>,
      <<"m","a","n","u","t","e","n","ç","ã","o">>>>,
    <<<<"r","e","s","t","a","a","u","r","a","n","t","e">>,
      <<"r","e","s","t","a","u","r","a","n","t","e">>>>,
    <<<<"m","a","n","u","t","e","n","ç","ã","o">>,
      <<"m","a","n","u","t","e","n","ç","ã","o">>>>,
    <<<<"s","e","r"," ","l","a","d","o">>,
      <<"p","a","r","c","e","l","a","d","o">>>>,
    <<<<"n","a"," ","c","o","m","p","r","a"," ","d","e">>,
      <<"c","o","m","p","r","a","r">>>>,
    <<<<"m","e","u"," ","r","e","s","t","a","u","r","a","n","t","e">>,
      <<"r","e","s","t","a","u","r","a","n","t","e">>>>,
    <<<<"m","e","u"," ">>,
      <<>>>>,
    <<<<"(","\\","d","+",")","x","(","\\","d","+",")","%">>,
      <<"\\","1"," ","r","e","a","i","s"," ","e"," ","\\","2"," ","c","e","n","t","a","v","o","s">>>>,
    <<<<"(","\\","d","+",")","x","(","\\","d","+",")">>,
      <<"\\","1"," ","r","e","a","i","s"," ","e"," ","\\","2"," ","c","e","n","t","a","v","o","s">>>>,
    <<<<"(","\\","d","+",")","h","(","\\","d","+",")">>,
      <<"\\","1"," ","r","e","a","i","s"," ","e"," ","\\","2"," ","c","e","n","t","a","v","o","s">>>>,
    <<<<"(","\\","d","+",")","e","(","\\","d","+",")">>,
      <<"\\","1"," ","r","e","a","i","s"," ","e"," ","\\","2"," ","c","e","n","t","a","v","o","s">>>>,
    <<<<"c","e","n","t","a","o","s">>,
      <<"c","e","n","t","a","v","o","s">>>>,
    <<<<"s","u","m","o","s">>,
      <<"i","n","s","u","m","o","s">>>>,
    <<<<"p","a","r","c","e","l","a","s","s">>,
      <<"p","a","r","c","e","l","a","s">>>>,
    <<<<"v","e","z","e">>,
      <<"v","e","z","e","s">>>>,
    <<<<"c","a","r","t","ã","o"," ","d","e"," ","c","r","é","d","i","t","o">>,
      <<"c","a","r","t","ã","o"," ","c","r","é","d","i","t","o">>>>,
    <<<<"c","a","r","t","ã","o"," ","c","r","é","d","i","t","o">>,
      <<"c","a","r","t","ã","o"," ","c","r","é","d","i","t","o">>>>,
    <<<<"m","i","l"," ">>,
      <<"1","0","0","0"," ">>>>,
    <<<<"m","i","l",",">>,
      <<"1","0","0","0",",">>>>,
    <<<<"m","i","l",".">>,
      <<"1","0","0","0",".">>>>,
    <<<<"m","i","l"," ","r","e","a","i","s">>,
      <<"1","0","0","0"," ","r","e","a","i","s">>>>
  >>

\* for wrong, correct in critical_fixes.items(): if wrong in text: replace
RECURSIVE ApplyFixes(_, _)
ApplyFixes(s, k) ==
  IF k > Len(critical_fixes) THEN s
  ELSE IF Contains(s, critical_fixes[k][1])
       THEN ApplyFixes(Replace(s, critical_fixes[k][1], critical_fixes[k][2]),
                       k + 1)
       ELSE ApplyFixes(s, k + 1)

\* re.search(r'\d+', text)
HasDigit(s) == \E i \in 1..Len(s) : IsDigit(s[i])

\* the "contexto monetário" step at the end of ultra_fast_text_processing
MonetaryContext(s) ==
  IF ContainsAny(s, {<<"g","a","s","t","e","i">>, <<"p","a","g","u","e","i">>, <<"r","e","a","i","s">>})
  THEN s
  ELSE IF ContainsAny(s, {<<"c","e","n","t","a","v","o","s">>, <<"c","a","r","t","ã","o">>, <<"p","a","r","c","e","l","a">>})
       THEN <<"g","a","s","t","e","i"," ">> \o s
       ELSE IF HasDigit(s)
            THEN <<"g","a","s","t","e","i"," ">> \o s \o <<" ","r","e","a","i","s">>
            ELSE s

\* ultra_fast_text_processing without its "if not text" default phrase
text_processing_without_default(s) ==
  MonetaryContext(ApplyFixes(Strip(Lower(s)), 1))

ultra_fast_text_processing(s) ==
  IF s = <<>>
  THEN <<"g","a","s","t","e","i"," ","1","0","0"," ","r","e","a","i","s">>
  ELSE MonetaryContext(ApplyFixes(Strip(Lower(s)), 1))

-----------------------------------------------------------------------------
(* ultra_fast_amount_extraction                                            *)

\* n reais, in thousandths
Reais(n) == n * 1000

\* float(group) / 100 of a centavos group, in thousandths
Centavos(n) == n * 10

\* round(x, 2) of a non-negative amount in thousandths (ties to the even cent)
Round2(x) ==
  LET r == x % 10
      down == x - r
  IN  IF r < 5 THEN down
      ELSE IF r > 5 THEN down + 10
      ELSE IF (down \div 10) % 2 = 0 THEN down ELSE down + 10

\* ESTRATÉGIA 1 testing the spoken form only
HasMilReais_spoken_only(s) == Contains(s, <<"m","i","l"," ","r","e","a","i","s">>)

\* ESTRATÉGIA 1: 'mil reais' in text or '1000 reais' in text
HasMilReais(s) == Contains(s, <<"m","i","l"," ","r","e","a","i","s">>) \/ Contains(s, <<"1","0","0","0"," ","r","e","a","i","s">>)

\* r'(\d+)[,.](\d{2})' matches at position i
DecimalMatchAt(s, i) ==
  /\ IsDigit(CharAt(s, i))
  /\ LET e == DigitRunEnd(s, i)
     IN  /\ CharAt(s, e + 1) \in {",", "."}
         /\ IsDigit(CharAt(s, e + 2))
         /\ IsDigit(CharAt(s, e + 3))

DecimalStarts(s) == {i \in 1..Len(s) : DecimalMatchAt(s, i)}

\* ESTRATÉGIA 2 taking the last match instead of the first
DecimalAmount_last_match(s) ==
  LET i == Max(DecimalStarts(s))
      e == DigitRunEnd(s, i)
  IN  Round2(Reais(NumVal(s, i, e)) + Centavos(NumVal(s, e + 2, e + 3)))

\* ESTRATÉGIA 2 reading the two digits as thousandths and not rounding
DecimalAmount_unrounded(s) ==
  LET i == Min(DecimalStarts(s))
      e == DigitRunEnd(s, i)
  IN  Reais(NumVal(s, i, e)) + NumVal(s, e + 2, e + 3)

\* ESTRATÉGIA 2 on the leftmost match (re.search): round(reais + centavos, 2)
DecimalAmount(s) ==
  LET i == Min(DecimalStarts(s))
      e == DigitRunEnd(s, i)
  IN  Round2(Reais(NumVal(s, i, e)) + Centavos(NumVal(s, e + 2, e + 3)))

\* where r'(\d+)\s*reais?\s*(?:e\s*)?' started at i leaves the second group,
\* or 0 when it does not match
SecondGroupStart(s, i) ==
  IF ~IsDigit(CharAt(s, i)) THEN 0
  ELSE LET p1 == SkipSpaces(s, DigitRunEnd(s, i) + 1)
       IN  IF ~MatchAt(s, p1, <<"r","e","a","i">>) THEN 0
           ELSE LET p2 == IF CharAt(s, p1 + 4) = "s" THEN p1 + 5 ELSE p1 + 4
                    p3 == SkipSpaces(s, p2)
                IN  IF CharAt(s, p3) = "e" THEN SkipSpaces(s, p3 + 1) ELSE p3

\* r'(\d+)\s*reais?\s*(?:e\s*)?(\d+)\s*centavos?' matches at position i
ReaisCentavosMatchAt(s, i) ==
  LET g == SecondGroupStart(s, i)
  IN  /\ g > 0
      /\ IsDigit(CharAt(s, g))
      /\ MatchAt(s, SkipSpaces(s, DigitRunEnd(s, g) + 1), <<"c","e","n","t","a","v","o">>)

ReaisCentavosStarts(s) == {i \in 1..Len(s) : ReaisCentavosMatchAt(s, i)}

\* ESTRATÉGIA 3 on the leftmost match: round(reais + centavos, 2)
ReaisCentavosAmount(s) ==
  LET i == Min(ReaisCentavosStarts(s))
      g == SecondGroupStart(s, i)
  IN  Round2(Reais(NumVal(s, i, DigitRunEnd(s, i)))
             + Centavos(NumVal(s, g, DigitRunEnd(s, g))))

\* r'\b\d{2,5}\b' matches at position i: a whole run of 2 to 5 digits with
\* no word character on either side
BareNumberAt(s, i) ==
  /\ IsDigit(CharAt(s, i))
  /\ (i = 1 \/ ~IsWordChar(s[i - 1]))
  /\ LET e == DigitRunEnd(s, i)
     IN  /\ e - i + 1 >= 2
         /\ e - i + 1 <= 5
         /\ (e = Len(s) \/ ~IsWordChar(s[e + 1]))

\* the values of re.findall(r'\b\d{2,5}\b', text)
numbers(s) ==
  {NumVal(s, i, DigitRunEnd(s, i)) : i \in {j \in 1..Len(s) : BareNumberAt(s, j)}}

\* every number found counts, whatever its value
valid_whatever_value(s) == numbers(s)

\* ESTRATÉGIA 4: the numbers n with 5 <= n <= 10000
valid(s) == {n \in numbers(s) : 5 <= n /\ n <= 10000}

\* ESTRATÉGIA 5: the two constant fallbacks
FallbackAmount(s) ==
  IF ContainsAny(s, {<<"p","a","r","c","e","l","a">>, <<"v","e","z","e","s">>, <<"c","a","r","t","ã","o">>})
  THEN Reais(100)
  ELSE Reais(50)

\* the chain with the largest plausible number tried before the decimal
\* pair and the reais/centavos pattern
ultra_fast_amount_extraction_largest_number_first(s) ==
  IF HasMilReais(s) THEN Reais(1000)
  ELSE IF valid(s) # {} THEN Reais(Max(valid(s)))
  ELSE IF DecimalStarts(s) # {} THEN DecimalAmount(s)
  ELSE IF ReaisCentavosStarts(s) # {} THEN ReaisCentavosAmount(s)
  ELSE FallbackAmount(s)

ultra_fast_amount_extraction(s) ==
  IF HasMilReais(s) THEN Reais(1000)
  ELSE IF DecimalStarts(s) # {} THEN DecimalAmount(s)
  ELSE IF ReaisCentavosStarts(s) # {} THEN ReaisCentavosAmount(s)
  ELSE IF valid(s) # {} THEN Reais(Max(valid(s)))
  ELSE FallbackAmount(s)


-----------------------------------------------------------------------------
(* ultra_fast_payment_method                                               *)

\* the lookup with the 'pix' test moved ahead of the 'dinheiro' test
ultra_fast_payment_method_pix_before_dinheiro(s) ==
  IF Contains(s, <<"c","r","é","d","i","t","o">>) THEN "cartão crédito"
  ELSE IF Contains(s, <<"d","é","b","i","t","o">>) THEN "cartão débito"
  ELSE IF Contains(s, <<"p","i","x">>) THEN "pix"
  ELSE IF Contains(s, <<"d","i","n","h","e","i","r","o">>) THEN "dinheiro"
  ELSE IF Contains(s, <<"t","r","a","n","s","f","e","r","ê","n","c","i","a">>) \/ Contains(s, <<"t","e","d">>) \/ Contains(s, <<"d","o","c">>)
       THEN "transferência"
  ELSE IF Contains(s, <<"b","o","l","e","t","o">>) THEN "boleto"
  ELSE "indefinida"

ultra_fast_payment_method(s) ==
  IF Contains(s, <<"c","r","é","d","i","t","o">>) THEN "cartão crédito"
  ELSE IF Contains(s, <<"d","é","b","i","t","o">>) THEN "cartão débito"
  ELSE IF Contains(s, <<"d","i","n","h","e","i","r","o">>) THEN "dinheiro"
  ELSE IF Contains(s, <<"p","i","x">>) THEN "pix"
  ELSE IF Contains(s, <<"t","r","a","n","s","f","e","r","ê","n","c","i","a">>) \/ Contains(s, <<"t","e","d">>) \/ Contains(s, <<"d","o","c">>)
       THEN "transferência"
  ELSE IF Contains(s, <<"b","o","l","e","t","o">>) THEN "boleto"
  ELSE "indefinida"

-----------------------------------------------------------------------------
(* ultra_fast_cost_center                                                  *)

\* the literal "Pessoal"
Pessoal == <<"P","e","s","s","o","a","l">>

\* [cc for cc in user_cost_centers if cc.lower() != "pessoal"]
non_personal(centers) ==
  SelectSeq(centers, LAMBDA cc : Lower(cc) # <<"p","e","s","s","o","a","l">>)

\* for center in non_personal: if center.lower() in text: return center
\* (the position of that center in non_personal, 0 when the loop ends
\* without a return)
RECURSIVE FirstNamed(_, _, _)
FirstNamed(s, centers, k) ==
  IF k > Len(centers) THEN 0
  ELSE IF Contains(s, Lower(centers[k])) THEN k
  ELSE FirstNamed(s, centers, k + 1)

\* the lookup with the 'insumos' rule tried before the names
ultra_fast_cost_center_insumos_first(s, centers) ==
  IF centers = <<>> THEN Pessoal
  ELSE LET np == non_personal(centers)
           named == FirstNamed(s, np, 1)
       IN  IF Contains(s, <<"i","n","s","u","m","o","s">>) /\ np # <<>> THEN np[1]
           ELSE IF named # 0 THEN np[named]
           ELSE Pessoal

ultra_fast_cost_center(s, centers) ==
  IF centers = <<>> THEN Pessoal
  ELSE LET np == non_personal(centers)
           named == FirstNamed(s, np, 1)
       IN  IF named # 0 THEN np[named]
           ELSE IF Contains(s, <<"i","n","s","u","m","o","s">>) /\ np # <<>> THEN np[1]
           ELSE Pessoal

-----------------------------------------------------------------------------
(* ultra_fast_category                                                     *)

\* name in user_categories
InList(name, list) == \E k \in 1..Len(list) : list[k] = name

\* the last lines with the cost center left out: 'Alimentação' (or
\* 'Outros') whatever the cost center
DefaultCategory_whatever_center(categories, center) ==
  IF InList("Alimentação", categories) THEN "Alimentação" ELSE "Outros"

\* the lines after the keyword rules: 'Insumos' for a cost center other
\* than "Pessoal", 'Alimentação' for "Pessoal", each only if the catalog
\* has it
DefaultCategory(categories, center) ==
  IF center # Pessoal
  THEN IF InList("Insumos", categories) THEN "Insumos" ELSE "Outros"
  ELSE IF InList("Alimentação", categories) THEN "Alimentação" ELSE "Outros"

ultra_fast_category(s, categories, center) ==
  IF categories = <<>> THEN "Outros"
  ELSE IF Contains(s, <<"r","o","u","p","a","s">>) \/ Contains(s, <<"v","e","s","t","u","á","r","i","o">>)
       THEN IF InList("Vestuário", categories) THEN "Vestuário" ELSE "Outros"
  ELSE IF \/ Contains(s, <<"i","n","s","u","m","o","s">>) \/ Contains(s, <<"m","a","t","e","r","i","a","l">>)
          \/ Contains(s, <<"c","o","m","p","r","a","r">>) \/ Contains(s, <<"m","a","t","é","r","i","a">>)
       THEN IF InList("Insumos", categories) THEN "Insumos" ELSE "Outros"
  ELSE IF \/ Contains(s, <<"l","u","z">>) \/ Contains(s, <<"e","n","e","r","g","i","a">>)
          \/ Contains(s, <<"á","g","u","a">>) \/ Contains(s, <<"g","á","s">>)
       THEN IF InList("Contas", categories) THEN "Contas" ELSE "Moradia"
  ELSE IF \/ Contains(s, <<"c","o","m","i","d","a">>) \/ Contains(s, <<"r","e","s","t","a","u","r","a","n","t","e">>)
          \/ Contains(s, <<"m","e","r","c","a","d","o">>) \/ Contains(s, <<"a","l","i","m","e","n","t","a","ç","ã","o">>)
       THEN IF InList("Alimentação", categories) THEN "Alimentação" ELSE "Outros"
  ELSE IF \/ Contains(s, <<"t","r","a","n","s","p","o","r","t","e">>) \/ Contains(s, <<"g","a","s","o","l","i","n","a">>)
          \/ Contains(s, <<"c","o","m","b","u","s","t","í","v","e","l">>)
       THEN IF InList("Transporte", categories) THEN "Transporte" ELSE "Outros"
  ELSE IF \/ Contains(s, <<"m","a","n","u","t","e","n","ç","ã","o">>) \/ Contains(s, <<"g","e","l","a","d","e","i","r","a">>)
          \/ Contains(s, <<"r","e","p","a","r","o">>)
       THEN IF InList("Manutenção", categories) THEN "Manutenção" ELSE "Outros"
  ELSE DefaultCategory(categories, center)

-----------------------------------------------------------------------------
(* ultra_fast_installments                                                 *)

\* 'vezes' in text or 'parcela' in text or 'x' in text
has_installments(s) ==
  Contains(s, <<"v","e","z","e","s">>) \/ Contains(s, <<"p","a","r","c","e","l","a">>) \/ Contains(s, <<"x">>)

\* r'(\d+)\s*(?:vezes|parcela|x)' matches at position i
CountMatchAt(s, i) ==
  /\ IsDigit(CharAt(s, i))
  /\ LET p == SkipSpaces(s, DigitRunEnd(s, i) + 1)
     IN  MatchAt(s, p, <<"v","e","z","e","s">>) \/ MatchAt(s, p, <<"p","a","r","c","e","l","a">>) \/ MatchAt(s, p, <<"x">>)

CountStarts(s) == {i \in 1..Len(s) : CountMatchAt(s, i)}

\* the else branch of the count rules: int(match.group(1)) of the leftmost
\* match when it lies in 2..12, and otherwise the initial 1
CapturedCount(s) ==
  IF CountStarts(s) = {} THEN 1
  ELSE LET i == Min(CountStarts(s))
           num == NumVal(s, i, DigitRunEnd(s, i))
       IN  IF 2 <= num /\ num <= 12 THEN num ELSE 1

\* num_installments after the if/elif chain (before the small-amount rule)
DetectedCount(s) ==
  IF \/ Contains(s, <<"d","u","a","s">>) \/ Contains(s, <<"d","o","i","s">>)
     \/ Contains(s, <<"2","x">>) \/ Contains(s, <<"2"," ","v","e","z","e","s">>) THEN 2
  ELSE IF \/ Contains(s, <<"t","r","ê","s">>) \/ Contains(s, <<"t","r","e","s">>)
          \/ Contains(s, <<"3","x">>) \/ Contains(s, <<"3"," ","v","e","z","e","s">>) THEN 3
  ELSE IF Contains(s, <<"q","u","a","t","r","o">>) \/ Contains(s, <<"4","x">>) \/ Contains(s, <<"4"," ","v","e","z","e","s">>) THEN 4
  ELSE IF Contains(s, <<"c","i","n","c","o">>) \/ Contains(s, <<"5","x">>) \/ Contains(s, <<"5"," ","v","e","z","e","s">>) THEN 5
  ELSE IF Contains(s, <<"s","e","i","s">>) \/ Contains(s, <<"6","x">>) \/ Contains(s, <<"6"," ","v","e","z","e","s">>) THEN 6
  ELSE IF Contains(s, <<"s","e","t","e">>) \/ Contains(s, <<"7","x">>) \/ Contains(s, <<"7"," ","v","e","z","e","s">>) THEN 7
  ELSE IF Contains(s, <<"o","i","t","o">>) \/ Contains(s, <<"8","x">>) \/ Contains(s, <<"8"," ","v","e","z","e","s">>) THEN 8
  ELSE IF Contains(s, <<"n","o","v","e">>) \/ Contains(s, <<"9","x">>) \/ Contains(s, <<"9"," ","v","e","z","e","s">>) THEN 9
  ELSE IF Contains(s, <<"d","e","z">>) \/ Contains(s, <<"1","0","x">>) \/ Contains(s, <<"1","0"," ","v","e","z","e","s">>) THEN 10
  ELSE CapturedCount(s)

\* the count used for the split without the rule for small totals
num_installments_without_small_total_rule(s, total_amount) == DetectedCount(s)

\* num_installments after "if total_amount < 20: num_installments = 1"
num_installments(s, total_amount) ==
  IF total_amount < Reais(20) THEN 1 ELSE DetectedCount(s)

\* the share cut down to whole reais instead of rounded to the cent
RoundedShare_whole_reais(total_amount, n, tie_up) ==
  Reais((total_amount \div n) \div 1000)

\* round(total_amount / n, 2), in thousandths.  The quotient is a binary
\* float; when the exact quotient lies exactly between two cents the float
\* lies just above or just below it, so either cent can come out: tie_up
\* says which
RoundedShare(total_amount, n, tie_up) ==
  LET lo == ((total_amount \div n) \div 10) * 10   \* the cent at or below
      twice == 2 * (total_amount - n * lo)         \* 2 * n * (quotient - lo)
  IN  IF twice < 10 * n THEN lo
      ELSE IF twice > 10 * n THEN lo + 10
      ELSE IF tie_up THEN lo + 10 ELSE lo

\* the first test letting a total of zero through
NoAmount_negative_only(total_amount) == total_amount < 0

\* if total_amount <= 0: return []
NoAmount(total_amount) == total_amount <= 0

\* the single entry of a payment à vista
SingleEntry(total_amount) ==
  <<[amount |-> total_amount, due_date |-> 0,
     status |-> "pending", installment_number |-> 1]>>

\* the last entry taking what is left of the total after the others
InstallmentEntry_last_takes_remainder(total_amount, n, i, tie_up) ==
  [amount |-> IF i = n
              THEN total_amount - (n - 1) * RoundedShare(total_amount, n, tie_up)
              ELSE RoundedShare(total_amount, n, tie_up),
   due_date |-> 30 * i,
   status |-> "pending",
   installment_number |-> i]

\* the entry numbered with the loop index itself (from 0) instead of i + 1
InstallmentEntry_numbered_from_zero(total_amount, n, i, tie_up) ==
  [amount |-> RoundedShare(total_amount, n, tie_up),
   due_date |-> 30 * i,
   status |-> "pending",
   installment_number |-> i - 1]

\* the entry appended by the i-th turn of the loop (i from 1 to n) with the
\* first due date today instead of a month from now
InstallmentEntry_due_from_today(total_amount, n, i, tie_up) ==
  [amount |-> RoundedShare(total_amount, n, tie_up),
   due_date |-> 30 * (i - 1),
   status |-> "pending",
   installment_number |-> i]

\* the entry appended by the i-th turn of the loop (i from 1 to n):
\* amount round(total/n, 2), due today + 30 * i days
InstallmentEntry(total_amount, n, i, tie_up) ==
  [amount |-> RoundedShare(total_amount, n, tie_up),
   due_date |-> 30 * i,
   status |-> "pending",
   installment_number |-> i]

\* ultra_fast_installments without the is_credit_card tests: every method
\* is split into future installments
installments_for_any_method(s, total_amount, method, tie_up) ==
  IF total_amount <= 0 THEN <<>>
  ELSE IF ~has_installments(s) THEN SingleEntry(total_amount)
  ELSE LET n == num_installments(s, total_amount)
       IN  IF n > 1
           THEN [i \in 1..n |-> InstallmentEntry(total_amount, n, i, tie_up)]
           ELSE SingleEntry(total_amount)

ultra_fast_installments(s, total_amount, method, tie_up) ==
  IF NoAmount(total_amount) THEN <<>>
  ELSE IF ~has_installments(s) \/ method # "cartão crédito"
       THEN SingleEntry(total_amount)
  ELSE LET n == num_installments(s, total_amount)
       IN  IF n > 1 /\ method = "cartão crédito"
           THEN [i \in 1..n |-> InstallmentEntry(total_amount, n, i, tie_up)]
           ELSE SingleEntry(total_amount)

-----------------------------------------------------------------------------
(* Inputs                                                                  *)

\* The fragments a transcript is made of: amounts in digits, in decimal
\* pairs and in words, payment and installment vocabulary, cost-center and
\* category words, and the empty fragment (which gives leading, trailing
\* and doubled blanks, and the blank-only transcript).
Phrases ==
  <<
    <<>>,
    <<"G","a","s","t","e","i">>,
    <<"m","i","l"," ","r","e","a","i","s">>,
    <<"1","0","0","0"," ","r","e","a","i","s">>,
    <<"8","7",",","5","5">>,
    <<"1","2",".","5","0">>,
    <<"0",",","0","0">>,
    <<"c","e","m"," ","r","e","a","i","s">>,
    <<"d","u","z","e","n","t","o","s"," ","e"," ","c","i","n","q","u","e","n","t","a"," ","r","e","a","i","s">>,
    <<"8","7","x","5","5">>,
    <<"9","0","0">>,
    <<"1","5"," ","r","e","a","i","s">>,
    <<"p","i","x">>,
    <<"c","a","r","t","ã","o"," ","d","e"," ","c","r","é","d","i","t","o">>,
    <<"3"," ","v","e","z","e","s">>,
    <<"r","e","s","t","a","u","r","a","n","t","e">>,
    <<"i","n","s","u","m","o","s">>
  >>

\* the most fragments in one transcript
MaxPhrases == 2

\* " ".join of the chosen fragments
RECURSIVE Join(_, _)
Join(choice, k) ==
  IF k > Len(choice) THEN <<>>
  ELSE IF k = Len(choice) THEN Phrases[choice[k]]
  ELSE Phrases[choice[k]] \o <<" ">> \o Join(choice, k + 1)

\* what model.transcribe can return as result["text"]
Transcripts ==
  {Join(choice, 1) :
     choice \in UNION {[1..n -> 1..Len(Phrases)] : n \in 0..MaxPhrases}}

\* the cost-center catalogs a caller passes (empty stands for None too)
CostCenterCatalogs ==
  { <<>>,
    <<<<"L","o","j","a">>, <<"P","e","s","s","o","a","l">>, <<"R","e","s","t","a","u","r","a","n","t","e">>>> }

\* the category catalogs a caller passes (empty stands for None too)
CategoryCatalogs ==
  { <<>>,
    <<"Alimentação", "Transporte", "Contas", "Insumos", "Vestuário", "Outros">>,
    <<"Moradia", "Lazer">> }

-----------------------------------------------------------------------------
(* transcribe_and_extract                                                  *)

\* user_cost_centers = ["Pessoal"] when the argument is None or empty
DefaultCostCenters == <<Pessoal>>

\* the default list of test_extraction used in place of the built-in one
DefaultCategories_of_test_extraction ==
  <<"Alimentação", "Transporte", "Contas", "Insumos", "Vestuário", "Outros">>

\* the built-in categories substituted when the argument is None or empty
DefaultCategories ==
  <<"Alimentação", "Transporte", "Moradia", "Saúde", "Educação",
    "Entretenimento", "Outros">>

NoResult == [kind |-> "none"]

\* the record of the normal return
ExtractionResult ==
  [text |-> text,
   description |->
     [template |-> "Despesa de R$ {amount:.2f} em {category} - {cost_center} ({payment_method})",
      args |-> <<amount, category, cost_center, payment_method>>],
   total_amount |-> amount,
   payment_method |-> payment_method,
   cost_center |-> cost_center,
   category |-> category,
   installments |-> installments_data]

\* the except clause returning the sentinels whatever the catalogs hold
DegradedResult_sentinels_only ==
  [text |-> <<"P","r","o","c","e","s","s","a","m","e","n","t","o"," ","r","á","p","i","d","o">>,
   description |-> [template |-> "Despesa registrada", args |-> <<>>],
   total_amount |-> 0,
   payment_method |-> "indefinida",
   cost_center |-> Pessoal,
   category |-> "Outros",
   installments |-> <<>>]

\* the record the except clause returns, from the local names as they are
\* bound when the exception arrives
DegradedResult ==
  [text |-> <<"P","r","o","c","e","s","s","a","m","e","n","t","o"," ","r","á","p","i","d","o">>,
   description |-> [template |-> "Despesa registrada", args |-> <<>>],
   total_amount |-> 0,
   payment_method |-> "indefinida",
   cost_center |-> IF user_cost_centers # <<>> THEN user_cost_centers[1] ELSE Pessoal,
   category |-> IF user_categories # <<>> THEN user_categories[1] ELSE "Outros",
   installments |-> <<>>]

\* how many threads can be inside get_model at once
MaxCallers == 3

\* the threads that call get_model
Callers == 1..MaxCallers

\* no thread is inside get_model, none has loaded or been returned a model
NoCallers == [c \in Callers |-> [pc |-> "idle", loaded |-> 0, got |-> 0]]

Init ==
  /\ pc = "idle"
  /\ arg_cost_centers = <<>>
  /\ arg_categories = <<>>
  /\ user_cost_centers = <<>>
  /\ user_categories = <<>>
  /\ model_loaded = FALSE
  /\ load_count = 0
  /\ model_instance = 0
  /\ callers = NoCallers
  /\ transcript = <<>>
  /\ raw_text = <<>>
  /\ text = <<>>
  /\ amount = 0
  /\ payment_method = ""
  /\ cost_center = <<>>
  /\ category = ""
  /\ installments_data = <<>>
  /\ failed_stage = "none"
  /\ result = NoResult

\* the call and the first statements of the try block: the catalogs are
\* replaced by the defaults when None or empty
Call ==
  /\ UNCHANGED <<model_instance, callers>>
  /\ pc = "idle"
  /\ \E centers \in CostCenterCatalogs, categories \in CategoryCatalogs :
       /\ arg_cost_centers' = centers
       /\ arg_categories' = categories
       /\ user_cost_centers' = IF centers = <<>> THEN DefaultCostCenters ELSE centers
       /\ user_categories' = IF categories = <<>> THEN DefaultCategories ELSE categories
  /\ pc' = "get_model"
  /\ UNCHANGED <<model_loaded, load_count, transcript, raw_text, text, amount,
                 payment_method, cost_center, category, installments_data,
                 failed_stage, result>>

\* get_model(): whisper.load_model runs only while _model is None
get_model ==
  /\ pc = "get_model"
  /\ model_loaded' = TRUE
  /\ model_instance' = IF model_loaded THEN model_instance ELSE load_count + 1
  /\ UNCHANGED callers
  /\ load_count' = IF model_loaded THEN load_count ELSE load_count + 1
  /\ pc' = "transcribe"
  /\ UNCHANGED <<arg_cost_centers, arg_categories, user_cost_centers,
                 user_categories, transcript, raw_text, text, amount, payment_method,
                 cost_center, category, installments_data, failed_stage, result>>

\* model.transcribe(...) and raw_text = result["text"].strip()
Transcribe ==
  /\ UNCHANGED <<model_instance, callers>>
  /\ pc = "transcribe"
  /\ \E t \in Transcripts :
       /\ transcript' = t
       /\ raw_text' = Strip(t)
  /\ pc' = "normalize"
  /\ UNCHANGED <<arg_cost_centers, arg_categories, user_cost_centers,
                 user_categories, model_loaded, load_count, text, amount,
                 payment_method, cost_center, category, installments_data,
                 failed_stage, result>>

\* text = ultra_fast_text_processing(raw_text)
Normalize ==
  /\ UNCHANGED <<model_instance, callers>>
  /\ pc = "normalize"
  /\ text' = ultra_fast_text_processing(raw_text)
  /\ pc' = "amount"
  /\ UNCHANGED <<arg_cost_centers, arg_categories, user_cost_centers,
                 user_categories, model_loaded, load_count, transcript, raw_text, amount,
                 payment_method, cost_center, category, installments_data,
                 failed_stage, result>>

\* amount = ultra_fast_amount_extraction(text)
ExtractAmount ==
  /\ UNCHANGED <<model_instance, callers>>
  /\ pc = "amount"
  /\ amount' = ultra_fast_amount_extraction(text)
  /\ pc' = "payment_method"
  /\ UNCHANGED <<arg_cost_centers, arg_categories, user_cost_centers,
                 user_categories, model_loaded, load_count, transcript, raw_text, text,
                 payment_method, cost_center, category, installments_data,
                 failed_stage, result>>

\* payment_method = ultra_fast_payment_method(text)
ClassifyPaymentMethod ==
  /\ UNCHANGED <<model_instance, callers>>
  /\ pc = "payment_method"
  /\ payment_method' = ultra_fast_payment_method(text)
  /\ pc' = "cost_center"
  /\ UNCHANGED <<arg_cost_centers, arg_categories, user_cost_centers,
                 user_categories, model_loaded, load_count, transcript, raw_text, text,
                 amount, cost_center, category, installments_data,
                 failed_stage, result>>

\* cost_center = ultra_fast_cost_center(text, user_cost_centers)
ClassifyCostCenter ==
  /\ UNCHANGED <<model_instance, callers>>
  /\ pc = "cost_center"
  /\ cost_center' = ultra_fast_cost_center(text, user_cost_centers)
  /\ pc' = "category"
  /\ UNCHANGED <<arg_cost_centers, arg_categories, user_cost_centers,
                 user_categories, model_loaded, load_count, transcript, raw_text, text,
                 amount, payment_method, category, installments_data,
                 failed_stage, result>>

\* category = ultra_fast_category(text, user_categories, cost_center)
ClassifyCategory ==
  /\ UNCHANGED <<model_instance, callers>>
  /\ pc = "category"
  /\ category' = ultra_fast_category(text, user_categories, cost_center)
  /\ pc' = "installments"
  /\ UNCHANGED <<arg_cost_centers, arg_categories, user_cost_centers,
                 user_categories, model_loaded, load_count, transcript, raw_text, text,
                 amount, payment_method, cost_center, installments_data,
                 failed_stage, result>>

\* installments_data = ultra_fast_installments(text, amount, payment_method)
ScheduleInstallments ==
  /\ UNCHANGED <<model_instance, callers>>
  /\ pc = "installments"
  /\ \E tie_up \in BOOLEAN :
       installments_data' =
         ultra_fast_installments(text, amount, payment_method, tie_up)
  /\ pc' = "return"
  /\ UNCHANGED <<arg_cost_centers, arg_categories, user_cost_centers,
                 user_categories, model_loaded, load_count, transcript, raw_text, text,
                 amount, payment_method, cost_center, category,
                 failed_stage, result>>

\* the description is composed and the record returned
Return ==
  /\ UNCHANGED <<model_instance, callers>>
  /\ pc = "return"
  /\ result' = ExtractionResult
  /\ pc' = "done"
  /\ UNCHANGED <<arg_cost_centers, arg_categories, user_cost_centers,
                 user_categories, model_loaded, load_count, transcript, raw_text, text,
                 amount, payment_method, cost_center, category,
                 installments_data, failed_stage>>

\* the statements of the try block after the defaults, each of which can
\* raise (the model fails to load, the audio cannot be decoded, a catalog
\* entry is no string, ...)
Stages ==
  {"get_model", "transcribe", "normalize", "amount", "payment_method",
   "cost_center", "category", "installments", "return"}

\* get_model() called before the try block is entered
InTry_after_get_model(stage) == stage \in Stages \ {"get_model"}

\* the statements that lie inside try: ... except Exception (all of them)
InTry(stage) == stage \in Stages

\* the stage at hand raises.  Inside the try block the handler returns the
\* degraded record; outside it the exception would reach the caller.  The
\* handler reads only user_cost_centers and user_categories; the other
\* locals of the frame are dead from here on and are dropped
Fail ==
  /\ UNCHANGED <<model_instance, callers>>
  /\ pc \in Stages
  /\ failed_stage' = pc
  /\ IF InTry(pc)
     THEN result' = DegradedResult /\ pc' = "done"
     ELSE result' = NoResult /\ pc' = "raised"
  /\ transcript' = <<>>
  /\ raw_text' = <<>>
  /\ text' = <<>>
  /\ amount' = 0
  /\ payment_method' = ""
  /\ cost_center' = <<>>
  /\ category' = ""
  /\ installments_data' = <<>>
  /\ UNCHANGED <<arg_cost_centers, arg_categories, user_cost_centers,
                 user_categories, model_loaded, load_count>>

\* the call is over; the process serves the next one with the same _model
NextCall ==
  /\ UNCHANGED <<model_instance, callers>>
  /\ pc = "done"
  /\ pc' = "idle"
  /\ arg_cost_centers' = <<>>
  /\ arg_categories' = <<>>
  /\ user_cost_centers' = <<>>
  /\ user_categories' = <<>>
  /\ transcript' = <<>>
  /\ raw_text' = <<>>
  /\ text' = <<>>
  /\ amount' = 0
  /\ payment_method' = ""
  /\ cost_center' = <<>>
  /\ category' = ""
  /\ installments_data' = <<>>
  /\ failed_stage' = "none"
  /\ result' = NoResult
  /\ UNCHANGED <<model_loaded, load_count>>

Next ==
  \/ Call
  \/ get_model
  \/ Transcribe
  \/ Normalize
  \/ ExtractAmount
  \/ ClassifyPaymentMethod
  \/ ClassifyCostCenter
  \/ ClassifyCategory
  \/ ScheduleInstallments
  \/ Return
  \/ Fail
  \/ NextCall

Spec == Init /\ [][Next]_vars

-----------------------------------------------------------------------------
(* ultra_fast_installments on its own arguments                            *)

\* texts handed to ultra_fast_installments: without installment vocabulary,
\* with vocabulary and no count, and with the counts 2 to 12 and beyond
InstallmentTexts ==
  { <<"g","a","s","t","e","i">>, <<"p","a","r","c","e","l","a","d","o">>, <<"2","x">>, <<"3"," ","v","e","z","e","s">>, <<"4","x">>, <<"c","i","n","c","o"," ","p","a","r","c","e","l","a","s">>,
    <<"6"," ","v","e","z","e","s">>, <<"7","x">>, <<"o","i","t","o"," ","v","e","z","e","s">>, <<"9","x">>, <<"1","0"," ","v","e","z","e","s">>, <<"1","1"," ","p","a","r","c","e","l","a","s">>,
    <<"1","2"," ","p","a","r","c","e","l","a","s">>, <<"1","2","x">>, <<"1","3"," ","p","a","r","c","e","l","a","s">>, <<"1","5"," ","v","e","z","e","s">>, <<"1","1","x">>, <<"1","2"," ","v","e","z","e","s">> }

\* how many cents around R$ 20.00 the totals reach
AmountWindow == 12

\* totals handed to ultra_fast_installments: zero, every cent around the
\* R$ 20.00 threshold, and some larger ones
TotalAmounts ==
  {0} \cup { Centavos(c) : c \in (2000 - AmountWindow)..(2000 + AmountWindow) }
      \cup { 87550, Reais(100), Reais(1000) }

\* the values ultra_fast_payment_method returns
PaymentMethods ==
  {"cartão crédito", "cartão débito", "dinheiro", "pix", "transferência",
   "boleto", "indefinida"}

\* transcribe_and_extract about to call ultra_fast_installments(text,
\* amount, payment_method); the three arguments are independent parameters
\* of the function
InitInstallments ==
  /\ pc = "installments"
  /\ arg_cost_centers = <<>>
  /\ arg_categories = <<>>
  /\ user_cost_centers = DefaultCostCenters
  /\ user_categories = DefaultCategories
  /\ model_loaded = TRUE
  /\ load_count = 1
  /\ model_instance = 1
  /\ callers = NoCallers
  /\ text \in InstallmentTexts
  /\ transcript = text
  /\ raw_text = text
  /\ amount \in TotalAmounts
  /\ payment_method \in PaymentMethods
  /\ cost_center = Pessoal
  /\ category = "Outros"
  /\ installments_data = <<>>
  /\ failed_stage = "none"
  /\ result = NoResult

NextInstallments ==
  \/ ScheduleInstallments
  \/ Return
  \/ Fail

SpecInstallments == InitInstallments /\ [][NextInstallments]_vars

-----------------------------------------------------------------------------
(* ultra_fast_category on its own arguments                                *)

\* texts handed to ultra_fast_category: two without any category keyword
\* and one for each keyword rule
CategoryTexts ==
  { <<"g","a","s","t","e","i"," ","5","0"," ","r","e","a","i","s">>, <<"u","b","e","r">>, <<"r","o","u","p","a","s"," ","n","o","v","a","s">>, <<"c","o","m","p","r","a","r"," ","i","n","s","u","m","o","s">>,
    <<"c","o","n","t","a"," ","d","e"," ","l","u","z">>, <<"r","e","s","t","a","u","r","a","n","t","e">>, <<"g","a","s","o","l","i","n","a">>, <<"r","e","p","a","r","o">> }

\* names a user's catalog is made of
CategoryNames ==
  {"Alimentação", "Insumos", "Outros", "Contas", "Moradia", "Vestuário",
   "Transporte", "Manutenção"}

\* the longest catalog
MaxCatalog == 2

\* the catalogs: the lists of distinct names up to MaxCatalog long, the
\* empty one included (test_extraction hands over [] as it is)
CategoryLists ==
  { c \in UNION { [1..n -> CategoryNames] : n \in 0..MaxCatalog } :
      \A i, j \in 1..Len(c) : i # j => c[i] # c[j] }

\* the cost centers ultra_fast_cost_center can hand over
ResolvedCostCenters == { Pessoal, <<"L","o","j","a">> }

\* the caller about to call ultra_fast_category(text, user_categories,
\* cost_center); amount and payment method are those of the text
InitCategory ==
  /\ pc = "category"
  /\ user_categories \in CategoryLists
  /\ arg_categories = user_categories
  /\ cost_center \in ResolvedCostCenters
  /\ arg_cost_centers = <<>>
  /\ user_cost_centers = <<cost_center>>
  /\ model_loaded = TRUE
  /\ load_count = 1
  /\ model_instance = 1
  /\ callers = NoCallers
  /\ text \in CategoryTexts
  /\ transcript = text
  /\ raw_text = text
  /\ amount = ultra_fast_amount_extraction(text)
  /\ payment_method = ultra_fast_payment_method(text)
  /\ category = ""
  /\ installments_data = <<>>
  /\ failed_stage = "none"
  /\ result = NoResult

NextCategory == ClassifyCategory

SpecCategory == InitCategory /\ [][NextCategory]_vars

-----------------------------------------------------------------------------
(* ultra_fast_payment_method on normalised texts                           *)

\* " ".join of the chosen words
RECURSIVE JoinWords(_, _, _)
JoinWords(words, choice, k) ==
  IF k > Len(choice) THEN <<>>
  ELSE IF k = Len(choice) THEN words[choice[k]]
  ELSE words[choice[k]] \o <<" ">> \o JoinWords(words, choice, k + 1)

\* the texts of up to MaxPhrases of the words
TextsOf(words) ==
  {JoinWords(words, choice, 1) :
     choice \in UNION {[1..n -> 1..Len(words)] : n \in 0..MaxPhrases}}

\* every payment keyword, and a fragment without any
PaymentWords ==
  << <<"c","r","é","d","i","t","o">>, <<"d","é","b","i","t","o">>, <<"d","i","n","h","e","i","r","o">>, <<"p","i","x">>, <<"t","r","a","n","s","f","e","r","ê","n","c","i","a">>, <<"t","e","d">>, <<"d","o","c">>,
     <<"b","o","l","e","t","o">>, <<"5","0"," ","r","e","a","i","s">> >>

\* the caller about to call ultra_fast_payment_method(text) on the
\* normalised text of a transcript
InitPayment ==
  /\ pc = "payment_method"
  /\ arg_cost_centers = <<>>
  /\ arg_categories = <<>>
  /\ user_cost_centers = DefaultCostCenters
  /\ user_categories = DefaultCategories
  /\ model_loaded = TRUE
  /\ load_count = 1
  /\ model_instance = 1
  /\ callers = NoCallers
  /\ transcript \in TextsOf(PaymentWords)
  /\ raw_text = Strip(transcript)
  /\ text = ultra_fast_text_processing(raw_text)
  /\ amount = ultra_fast_amount_extraction(text)
  /\ payment_method = ""
  /\ cost_center = <<>>
  /\ category = ""
  /\ installments_data = <<>>
  /\ failed_stage = "none"
  /\ result = NoResult

NextPayment == ClassifyPaymentMethod

SpecPayment == InitPayment /\ [][NextPayment]_vars

-----------------------------------------------------------------------------
(* ultra_fast_amount_extraction on normalised texts                        *)

\* a fragment for each amount strategy, a lone digit, and fragments
\* without any amount
AmountWords ==
  << <<"1","0","0","0"," ","r","e","a","i","s">>, <<"8","7",",","5","5">>, <<"1","2",",","5","0">>, <<"8","7"," ","r","e","a","i","s"," ","e"," ","5","5"," ","c","e","n","t","a","v","o","s">>, <<"9","0","0">>, <<"3">>,
     <<"c","a","r","t","ã","o">>, <<"o","i">> >>

\* the caller about to call ultra_fast_amount_extraction(text) on the
\* normalised text of a transcript
InitAmount ==
  /\ pc = "amount"
  /\ arg_cost_centers = <<>>
  /\ arg_categories = <<>>
  /\ user_cost_centers = DefaultCostCenters
  /\ user_categories = DefaultCategories
  /\ model_loaded = TRUE
  /\ load_count = 1
  /\ model_instance = 1
  /\ callers = NoCallers
  /\ transcript \in TextsOf(AmountWords)
  /\ raw_text = Strip(transcript)
  /\ text = ultra_fast_text_processing(raw_text)
  /\ amount = 0
  /\ payment_method = ""
  /\ cost_center = <<>>
  /\ category = ""
  /\ installments_data = <<>>
  /\ failed_stage = "none"
  /\ result = NoResult

NextAmount == ExtractAmount

SpecAmount == InitAmount /\ [][NextAmount]_vars

-----------------------------------------------------------------------------
(* ultra_fast_cost_center on its own arguments                             *)

\* texts handed to ultra_fast_cost_center: with one name, with two names,
\* with 'insumos', with 'insumos' and a name, with neither
CostCenterTexts ==
  { <<"g","a","s","t","e","i"," ","n","a"," ","l","o","j","a">>, <<"r","e","s","t","a","u","r","a","n","t","e"," ","d","a"," ","l","o","j","a">>, <<"c","o","m","p","r","a","r"," ","i","n","s","u","m","o","s">>,
    <<"i","n","s","u","m","o","s"," ","d","a"," ","l","o","j","a">>, <<"g","a","s","t","e","i"," ","5","0"," ","r","e","a","i","s">> }

\* names a user's cost centers are made of, in several spellings
CostCenterNames ==
  { Pessoal, <<"p","e","s","s","o","a","l">>, <<"L","o","j","a">>, <<"L","O","J","A">>, <<"R","e","s","t","a","u","r","a","n","t","e">>, <<"O","b","r","a">> }

\* the catalogs: the lists of distinct names up to MaxCatalog long
CostCenterLists ==
  { c \in UNION { [1..n -> CostCenterNames] : n \in 0..MaxCatalog } :
      \A i, j \in 1..Len(c) : i # j => c[i] # c[j] }

\* the caller about to call ultra_fast_cost_center(text, user_cost_centers);
\* amount and payment method are those of the text
InitCostCenter ==
  /\ pc = "cost_center"
  /\ user_cost_centers \in CostCenterLists
  /\ arg_cost_centers = user_cost_centers
  /\ arg_categories = <<>>
  /\ user_categories = DefaultCategories
  /\ model_loaded = TRUE
  /\ load_count = 1
  /\ model_instance = 1
  /\ callers = NoCallers
  /\ text \in CostCenterTexts
  /\ transcript = text
  /\ raw_text = text
  /\ amount = ultra_fast_amount_extraction(text)
  /\ payment_method = ultra_fast_payment_method(text)
  /\ cost_center = <<>>
  /\ category = ""
  /\ installments_data = <<>>
  /\ failed_stage = "none"
  /\ result = NoResult

NextCostCenter == ClassifyCostCenter

SpecCostCenter == InitCostCenter /\ [][NextCostCenter]_vars

-----------------------------------------------------------------------------
(* get_model called from several threads                                   *)

\* what a call of get_model leaves alone
call_frame ==
  <<pc, arg_cost_centers, arg_categories, user_cost_centers, user_categories,
    transcript, raw_text, text, amount, payment_method, cost_center, category,
    installments_data, failed_stage, result>>

\* "if _model is None": the thread reads the global and takes a branch
TestModel(c) ==
  /\ callers[c].pc = "idle"
  /\ callers' = [callers EXCEPT ![c].pc =
                   IF model_instance = 0 THEN "load" ELSE "return"]
  /\ UNCHANGED <<model_loaded, load_count, model_instance>>
  /\ UNCHANGED call_frame

\* whisper.load_model("base") runs and yields a new instance
LoadModel(c) ==
  /\ callers[c].pc = "load"
  /\ load_count' = load_count + 1
  /\ callers' = [callers EXCEPT ![c].pc = "store", ![c].loaded = load_count + 1]
  /\ UNCHANGED <<model_loaded, model_instance>>
  /\ UNCHANGED call_frame

\* "_model = ...": the instance is stored in the global
StoreModel(c) ==
  /\ callers[c].pc = "store"
  /\ model_instance' = callers[c].loaded
  /\ model_loaded' = TRUE
  /\ callers' = [callers EXCEPT ![c].pc = "return"]
  /\ UNCHANGED load_count
  /\ UNCHANGED call_frame

\* "return _model": the thread is handed what the global refers to now
ReturnModel(c) ==
  /\ callers[c].pc = "return"
  /\ callers' = [callers EXCEPT ![c].pc = "idle", ![c].got = model_instance]
  /\ UNCHANGED <<model_loaded, load_count, model_instance>>
  /\ UNCHANGED call_frame

NextCallers ==
  \E c \in Callers :
    \/ TestModel(c)
    \/ LoadModel(c)
    \/ StoreModel(c)
    \/ ReturnModel(c)

SpecCallers == Init /\ [][NextCallers]_vars

-----------------------------------------------------------------------------
(* extractor.extract_amount on texts without digits                        *)

\* the accented letters and the ASCII letter NFD leaves of each once the
\* combining mark is dropped
Unaccented ==
  {
    <<"á", "a">>,
    <<"à", "a">>,
    <<"â", "a">>,
    <<"ã", "a">>,
    <<"ä", "a">>,
    <<"é", "e">>,
    <<"è", "e">>,
    <<"ê", "e">>,
    <<"ë", "e">>,
    <<"í", "i">>,
    <<"ì", "i">>,
    <<"î", "i">>,
    <<"ï", "i">>,
    <<"ó", "o">>,
    <<"ò", "o">>,
    <<"ô", "o">>,
    <<"õ", "o">>,
    <<"ö", "o">>,
    <<"ú", "u">>,
    <<"ù", "u">>,
    <<"û", "u">>,
    <<"ü", "u">>,
    <<"ç", "c">>,
    <<"Á", "A">>,
    <<"À", "A">>,
    <<"Â", "A">>,
    <<"Ã", "A">>,
    <<"É", "E">>,
    <<"Ê", "E">>,
    <<"Í", "I">>,
    <<"Ó", "O">>,
    <<"Ô", "O">>,
    <<"Õ", "O">>,
    <<"Ú", "U">>,
    <<"Ç", "C">>
  }

AsciiChars ==
  { "a","b","c","d","e","f","g","h","i","j","k","l","m","n","o","p","q","r",
    "s","t","u","v","w","x","y","z","A","B","C","D","E","F","G","H","I","J",
    "K","L","M","N","O","P","Q","R","S","T","U","V","W","X","Y","Z","0","1",
    "2","3","4","5","6","7","8","9"," ",",",".","$","%","-","_","\t","\n" }

\* unicodedata.normalize("NFD", text).encode("ascii", "ignore"): an accented
\* letter keeps its base letter, any other non-ASCII character is dropped
RECURSIVE StripDiacritics(_)
StripDiacritics(s) ==
  IF s = <<>> THEN <<>>
  ELSE LET c == Head(s)
           rest == StripDiacritics(Tail(s))
       IN  IF c \in AsciiChars THEN <<c>> \o rest
           ELSE IF \E p \in Unaccented : p[1] = c
                THEN <<(CHOOSE p \in Unaccented : p[1] = c)[2]>> \o rest
                ELSE rest

\* re.sub(r"\s+", " ", text): every run of whitespace becomes one blank
RECURSIVE CollapseSpaces(_)
CollapseSpaces(s) ==
  IF s = <<>> THEN <<>>
  ELSE IF IsSpace(Head(s))
       THEN IF Len(s) > 1 /\ IsSpace(s[2]) THEN CollapseSpaces(Tail(s))
            ELSE <<" ">> \o CollapseSpaces(Tail(s))
  ELSE <<Head(s)>> \o CollapseSpaces(Tail(s))

\* extractor.normalize_text
normalize_text(s) ==
  Replace(Replace(Replace(CollapseSpaces(Lower(StripDiacritics(s))),
                          <<"r","e","a","i">>, <<"r","e","a","i","s">>),
                  <<"r","e","a","u","s">>, <<"r","e","a","i","s">>),
          <<"r","e","a","l","s">>, <<"r","e","a","i","s">>)

\* text.split(): the maximal runs of non-blank characters, in order
RECURSIVE Split(_)
Split(s) ==
  IF s = <<>> THEN <<>>
  ELSE IF IsSpace(Head(s)) THEN Split(Tail(s))
  ELSE LET ends == {k \in 1..Len(s) : k = Len(s) \/ IsSpace(s[k + 1])}
           e == Min(ends)
       IN  <<SubSeq(s, 1, e)>> \o Split(SubSeq(s, e + 1, Len(s)))

\* the dictionary number_words
number_words ==
  {
    <<<<"z","e","r","o">>, 0>>,
    <<<<"u","m">>, 1>>,
    <<<<"u","m","a">>, 1>>,
    <<<<"d","o","i","s">>, 2>>,
    <<<<"d","u","a","s">>, 2>>,
    <<<<"t","r","e","s">>, 3>>,
    <<<<"t","r","ê","s">>, 3>>,
    <<<<"q","u","a","t","r","o">>, 4>>,
    <<<<"c","i","n","c","o">>, 5>>,
    <<<<"s","e","i","s">>, 6>>,
    <<<<"s","e","t","e">>, 7>>,
    <<<<"o","i","t","o">>, 8>>,
    <<<<"n","o","v","e">>, 9>>,
    <<<<"d","e","z">>, 10>>,
    <<<<"o","n","z","e">>, 11>>,
    <<<<"d","o","z","e">>, 12>>,
    <<<<"t","r","e","z","e">>, 13>>,
    <<<<"c","a","t","o","r","z","e">>, 14>>,
    <<<<"q","u","a","t","o","r","z","e">>, 14>>,
    <<<<"q","u","i","n","z","e">>, 15>>,
    <<<<"d","e","z","e","s","s","e","i","s">>, 16>>,
    <<<<"d","e","z","e","s","s","e","t","e">>, 17>>,
    <<<<"d","e","z","o","i","t","o">>, 18>>,
    <<<<"d","e","z","e","n","o","v","e">>, 19>>,
    <<<<"v","i","n","t","e">>, 20>>,
    <<<<"t","r","i","n","t","a">>, 30>>,
    <<<<"q","u","a","r","e","n","t","a">>, 40>>,
    <<<<"c","i","n","q","u","e","n","t","a">>, 50>>,
    <<<<"s","e","s","s","e","n","t","a">>, 60>>,
    <<<<"s","e","t","e","n","t","a">>, 70>>,
    <<<<"o","i","t","e","n","t","a">>, 80>>,
    <<<<"n","o","v","e","n","t","a">>, 90>>,
    <<<<"c","e","m">>, 100>>,
    <<<<"c","e","n","t","o">>, 100>>,
    <<<<"d","u","z","e","n","t","o","s">>, 200>>,
    <<<<"t","r","e","z","e","n","t","o","s">>, 300>>,
    <<<<"q","u","a","t","r","o","c","e","n","t","o","s">>, 400>>,
    <<<<"q","u","i","n","h","e","n","t","o","s">>, 500>>,
    <<<<"s","e","i","s","c","e","n","t","o","s">>, 600>>,
    <<<<"s","e","t","e","c","e","n","t","o","s">>, 700>>,
    <<<<"o","i","t","o","c","e","n","t","o","s">>, 800>>,
    <<<<"n","o","v","e","c","e","n","t","o","s">>, 900>>,
    <<<<"m","i","l">>, 1000>>
  }

\* number_words[w], or -1 when w is not a key
WordValue(w) ==
  IF \E p \in number_words : p[1] = w
  THEN (CHOOSE p \in number_words : p[1] = w)[2]
  ELSE -1

\* 'mil' multiplying whatever temp holds, zero included
Thousands_without_default(temp) == temp * 1000

\* "if temp == 0: temp = 1" and then temp * 1000
Thousands(temp) == (IF temp = 0 THEN 1 ELSE temp) * 1000

\* the for loop over the words with its two accumulators, and the final
\* total += temp
RECURSIVE WalkWords(_, _, _, _)
WalkWords(words, k, total, temp) ==
  IF k > Len(words) THEN total + temp
  ELSE LET w == words[k]
           val == WordValue(w)
       IN  IF val # -1
           THEN IF val = 1000
                THEN WalkWords(words, k + 1, total + Thousands(temp), 0)
                ELSE WalkWords(words, k + 1, total, temp + val)
           ELSE IF w = <<"e">> THEN WalkWords(words, k + 1, total, temp)
           ELSE IF Contains(w, <<"r","e","a","i","s">>) \/ Contains(w, <<"r","e","a","l">>)
                THEN WalkWords(words, k + 1, total + temp, 0)
           ELSE WalkWords(words, k + 1, total, temp)

\* extract_amount for a text in which numeric_pattern finds nothing (the
\* pattern needs a digit), in thousandths
extract_amount(s) == Reais(WalkWords(Split(normalize_text(s)), 1, 0, 0))

\* fragments of spoken amounts: number words with and without 'mil', 'e'
\* and 'reais', an accented and capitalised word, words that are no
\* numbers, a doubled blank and the empty fragment
ExtractorWords ==
  << <<>>, <<"d","o","i","s"," ","m","i","l">>, <<"e"," ","q","u","i","n","h","e","n","t","o","s"," ","r","e","a","i","s">>, <<"m","i","l"," ","r","e","a","i","s">>, <<"T","r","ê","s">>,
     <<"c","e","n","t","o"," ","e"," ","v","i","n","t","e">>, <<"r","e","a","i","s">>, <<"m","i","l">>, <<"g","a","s","t","e","i"," "," ","n","o"," ","m","e","r","c","a","d","o">> >>

\* extract_amount about to be called on a text without digits
InitExtractor ==
  /\ pc = "extract_amount"
  /\ arg_cost_centers = <<>>
  /\ arg_categories = <<>>
  /\ user_cost_centers = <<>>
  /\ user_categories = <<>>
  /\ model_loaded = FALSE
  /\ load_count = 0
  /\ model_instance = 0
  /\ callers = NoCallers
  /\ transcript \in TextsOf(ExtractorWords)
  /\ raw_text = transcript
  /\ text = <<>>
  /\ amount = 0
  /\ payment_method = ""
  /\ cost_center = <<>>
  /\ category = ""
  /\ installments_data = <<>>
  /\ failed_stage = "none"
  /\ result = NoResult

\* text = normalize_text(text) and the walk over its words
ExtractWords ==
  /\ pc = "extract_amount"
  /\ text' = normalize_text(transcript)
  /\ amount' = extract_amount(transcript)
  /\ pc' = "extracted"
  /\ UNCHANGED <<arg_cost_centers, arg_categories, user_cost_centers,
                 user_categories, model_loaded, load_count, model_instance,
                 callers, transcript, raw_text, payment_method, cost_center,
                 category, installments_data, failed_stage, result>>

NextExtractor == ExtractWords

SpecExtractor == InitExtractor /\ [][NextExtractor]_vars

-----------------------------------------------------------------------------
(* ultra_fast_amount_extraction on texts of bare numbers                   *)

\* bare numbers inside and outside the range and the digit count of
\* ESTRATÉGIA 4, an installment count, and a number glued to a letter
NumberWords ==
  << <<"9","0","0">>, <<"1","2"," ","v","e","z","e","s">>, <<"5">>, <<"0","5">>, <<"0","4">>, <<"1","0","0","0","0">>, <<"2","0","0","0","0">>, <<"1","2","3","4","5","6">>, <<"a","5","0">> >>

\* the caller about to call ultra_fast_amount_extraction(text) on the
\* normalised text of a transcript of bare numbers
InitNumbers ==
  /\ pc = "amount"
  /\ arg_cost_centers = <<>>
  /\ arg_categories = <<>>
  /\ user_cost_centers = DefaultCostCenters
  /\ user_categories = DefaultCategories
  /\ model_loaded = TRUE
  /\ load_count = 1
  /\ model_instance = 1
  /\ callers = NoCallers
  /\ transcript \in TextsOf(NumberWords)
  /\ raw_text = Strip(transcript)
  /\ text = ultra_fast_text_processing(raw_text)
  /\ amount = 0
  /\ payment_method = ""
  /\ cost_center = <<>>
  /\ category = ""
  /\ installments_data = <<>>
  /\ failed_stage = "none"
  /\ result = NoResult

NextNumbers == ExtractAmount

SpecNumbers == InitNumbers /\ [][NextNumbers]_vars

-----------------------------------------------------------------------------
(* Properties                                                              *)

\* the call returned normally
Returned == pc = "done" /\ failed_stage = "none"

\* a stage raised and the call is over
Failed == failed_stage # "none"

\* the transcription is there and no stage has raised
Transcribed ==
  /\ failed_stage = "none"
  /\ pc \in {"normalize", "amount", "payment_method", "cost_center",
             "category", "installments", "return", "done"}

\* text is the normalised text of the call
Normalized == Transcribed /\ pc # "normalize"

\* amount is the extracted amount of the call
AmountKnown == Normalized /\ pc # "amount"

\* installments_data is the plan of the call
PlanKnown == failed_stage = "none" /\ pc \in {"return", "done"}

ResultFields ==
  {"text", "description", "total_amount", "payment_method", "cost_center",
   "category", "installments"}

\* C1: transcribe_and_extract never lets an exception reach its caller:
\* whichever stage raises, the call ends by returning a result record.
C1_NeverRaises ==
  /\ pc # "raised"
  /\ Failed => pc = "done" /\ DOMAIN result = ResultFields

C1_Witness ==
  failed_stage = "amount" /\ pc = "done" /\ DOMAIN result = ResultFields

\* C2: when a stage raised and both catalogs of the caller are non-empty,
\* the record returned is the fixed degraded one: amount 0.0, method
\* 'indefinida', no installments, description 'Despesa registrada', and the
\* first entry of each catalog.
C2_DegradedFixed ==
  (Failed /\ pc = "done" /\ arg_cost_centers # <<>> /\ arg_categories # <<>>)
    => /\ result.total_amount = 0
       /\ result.payment_method = "indefinida"
       /\ result.installments = <<>>
       /\ result.description = [template |-> "Despesa registrada", args |-> <<>>]
       /\ result.cost_center = arg_cost_centers[1]
       /\ result.category = arg_categories[1]

C2_Witness ==
  /\ failed_stage = "transcribe"
  /\ pc = "done"
  /\ arg_cost_centers # <<>>
  /\ arg_categories = <<"Moradia", "Lazer">>
  /\ result.cost_center = <<"L","o","j","a">>
  /\ result.category = "Moradia"

\* C3: when a stage raised and the caller passed an empty (or no) catalog,
\* the degraded record carries the sentinel: cost center 'Pessoal' for an
\* empty cost-center catalog, category 'Outros' for an empty category
\* catalog.
C3_DegradedSentinels ==
  (Failed /\ pc = "done")
    => /\ arg_cost_centers = <<>> => result.cost_center = <<"P","e","s","s","o","a","l">>
       /\ arg_categories = <<>> => result.category = "Outros"

\* the transcript is empty or holds blanks only
Blank(s) == \A i \in 1..Len(s) : s[i] = " "

\* C4: an empty or blank-only transcript gives no degraded record: the
\* normaliser puts 'gastei 100 reais' in its place and the amount is 100.00.
C4_EmptyTranscript ==
  (Transcribed /\ Blank(transcript))
    => /\ raw_text = <<>>
       /\ Normalized => text = <<"g","a","s","t","e","i"," ","1","0","0"," ","r","e","a","i","s">>
       /\ AmountKnown => amount = 100000
       /\ pc = "done" => /\ result.total_amount = 100000
                         /\ result.text = <<"g","a","s","t","e","i"," ","1","0","0"," ","r","e","a","i","s">>
                         /\ result.description.template # "Despesa registrada"

C4_Witness ==
  /\ Returned
  /\ transcript = <<" ">>
  /\ result.total_amount = 100000

\* C5: an empty cost-center catalog is replaced by ['Pessoal'] and an empty
\* category catalog by the seven built-in categories; with both empty every
\* normal result has cost center 'Pessoal' and a built-in category.
C5_DefaultCatalogs ==
  LET builtin == <<"Alimentação", "Transporte", "Moradia", "Saúde",
                   "Educação", "Entretenimento", "Outros">>
  IN  /\ (pc # "idle" /\ arg_cost_centers = <<>>)
           => user_cost_centers = <<<<"P","e","s","s","o","a","l">>>>
      /\ (pc # "idle" /\ arg_categories = <<>>) => user_categories = builtin
      /\ (Returned /\ arg_cost_centers = <<>> /\ arg_categories = <<>>)
           => /\ result.cost_center = <<"P","e","s","s","o","a","l">>
              /\ \E k \in 1..Len(builtin) : result.category = builtin[k]

C5_Witness ==
  /\ Returned
  /\ arg_cost_centers = <<>>
  /\ arg_categories = <<>>
  /\ Contains(text, <<"i","n","s","u","m","o","s">>)
  /\ result.cost_center = <<"P","e","s","s","o","a","l">>
  /\ result.category = "Outros"

\* C6: ultra_fast_amount_extraction returns, for every normalised text, an
\* amount that is not negative and has at most two fractional digits (a
\* whole number of cents).
C6_AmountRounded ==
  AmountKnown => amount >= 0 /\ amount % 10 = 0

C6_Witness ==
  pc = "payment_method" /\ failed_stage = "none" /\ amount = 87550

\* position i starts a whole run of digits followed by a separator and two
\* digits: a decimal pair N,NN or N.NN
PairAt(s, i) ==
  /\ IsDigit(s[i])
  /\ ~IsDigit(CharAt(s, i - 1))
  /\ \E e \in i..Len(s) :
       /\ \A k \in i..e : IsDigit(s[k])
       /\ CharAt(s, e + 1) \in {",", "."}
       /\ IsDigit(CharAt(s, e + 2))
       /\ IsDigit(CharAt(s, e + 3))

\* N + NN/100 of the pair that starts at i, in thousandths
PairValue(s, i) ==
  LET e == CHOOSE e \in i..Len(s) :
             (\A k \in i..e : IsDigit(s[k])) /\ ~IsDigit(CharAt(s, e + 1))
  IN  1000 * NumVal(s, i, e) + 10 * NumVal(s, e + 2, e + 3)

NoThousandPhrase(s) ==
  ~Contains(s, <<"m","i","l"," ","r","e","a","i","s">>) /\ ~Contains(s, <<"1","0","0","0"," ","r","e","a","i","s">>)

\* C7 as stated: for every text with a decimal pair N,NN (or N.NN) and no
\* 'mil reais' / '1000 reais', the amount is N + NN/100, whichever pair of
\* the text is taken.
C7_EveryPair ==
  (AmountKnown /\ NoThousandPhrase(text))
    => \A i \in 1..Len(text) : PairAt(text, i) => amount = PairValue(text, i)

\* C7 amended: the amount is N + NN/100 of the leftmost decimal pair of the
\* text; the pairs after it are not read.
C7_LeftmostPair ==
  (AmountKnown /\ NoThousandPhrase(text))
    => \A i \in 1..Len(text) :
         (PairAt(text, i) /\ \A j \in 1..(i - 1) : ~PairAt(text, j))
           => amount = PairValue(text, i)

C7_Witness ==
  /\ pc = "payment_method"
  /\ failed_stage = "none"
  /\ Contains(text, <<"1","2",".","5","0"," ","8","7",",","5","5">>)
  /\ amount = 12500

\* C8: a transcript with the amount spoken as 'mil reais' and one with it
\* written '1000 reais' both come out of normalisation and amount
\* extraction as exactly 1000.00.
C8_MilReais ==
  (AmountKnown /\ (\/ Contains(transcript, <<"m","i","l"," ","r","e","a","i","s">>)
                   \/ Contains(transcript, <<"1","0","0","0"," ","r","e","a","i","s">>)))
    => /\ amount = 1000000
       /\ pc = "done" => result.total_amount = 1000000

C8_Witness ==
  /\ Returned
  /\ Contains(transcript, <<"m","i","l"," ","r","e","a","i","s">>)
  /\ ~Contains(transcript, <<"1","0","0","0"," ","r","e","a","i","s">>)
  /\ Contains(text, <<"1","0","0","0"," ","r","e","a","i","s">>)
  /\ result.total_amount = 1000000

\* C9: an amount spoken in words comes out as its value: 'cem reais' gives
\* 100.00 and 'duzentos e cinquenta reais' gives 250.00.
C9_SpelledAmounts ==
  AmountKnown
    => /\ raw_text = <<"c","e","m"," ","r","e","a","i","s">> => amount = 100000
       /\ raw_text = <<"d","u","z","e","n","t","o","s"," ","e"," ","c","i","n","q","u","e","n","t","a"," ","r","e","a","i","s">> => amount = 250000

\* the plan is one entry, numbered 1, for the whole amount, due today
SinglePlan ==
  /\ Len(installments_data) = 1
  /\ installments_data[1].installment_number = 1
  /\ installments_data[1].amount = amount
  /\ installments_data[1].due_date = 0

\* C10 as stated: for every text and every total amount, a payment method
\* other than 'cartão crédito' gives a plan of exactly one entry, numbered
\* 1, for the total, due today.
C10_SingleEntry ==
  (PlanKnown /\ payment_method # "cartão crédito") => SinglePlan

\* C10 amended: the same for every total amount above zero (a total of
\* zero gives the empty plan).
C10_SingleEntryPositive ==
  (PlanKnown /\ payment_method # "cartão crédito" /\ amount > 0) => SinglePlan

C10_Witness ==
  /\ pc = "return"
  /\ payment_method = "pix"
  /\ Contains(text, <<"3"," ","v","e","z","e","s">>)
  /\ SinglePlan

\* the count the code detects in the text lies in 2..12, the payment is by
\* credit card, the text has installment vocabulary and the total is at
\* least R$ 20.00
SplitCase ==
  /\ PlanKnown
  /\ payment_method = "cartão crédito"
  /\ (Contains(text, <<"v","e","z","e","s">>) \/ Contains(text, <<"p","a","r","c","e","l","a">>) \/ Contains(text, <<"x">>))
  /\ amount >= Reais(20)
  /\ DetectedCount(text) \in 2..12

\* C11: for 'cartão crédito', a text with installment vocabulary, a total
\* of at least 20 and a detected count N in 2..12, the plan has exactly N
\* entries, numbered 1..N in order, the k-th due 30 * k days from today.
C11_SplitPlan ==
  SplitCase
    => /\ Len(installments_data) = DetectedCount(text)
       /\ \A k \in 1..Len(installments_data) :
            /\ installments_data[k].installment_number = k
            /\ installments_data[k].due_date = 30 * k

C11_Witness ==
  /\ SplitCase
  /\ text = <<"1","2"," ","p","a","r","c","e","l","a","s">>
  /\ amount = Reais(20)
  /\ Len(installments_data) = 12
  /\ installments_data[12].due_date = 360

\* the sum of the amounts of the entries of a plan
RECURSIVE SumAmounts(_)
SumAmounts(plan) ==
  IF plan = <<>> THEN 0 ELSE plan[1].amount + SumAmounts(Tail(plan))

\* C12: for every total of at least 20 and every count N in 2..12 the N
\* entry amounts sum to a value that differs from the total by at most N
\* cents.
C12_SumNearTotal ==
  SplitCase
    => /\ SumAmounts(installments_data) - amount <= Centavos(Len(installments_data))
       /\ amount - SumAmounts(installments_data) <= Centavos(Len(installments_data))

C12_Witness ==
  /\ SplitCase
  /\ amount = Reais(20)
  /\ Len(installments_data) = 3
  /\ SumAmounts(installments_data) = Reais(20) + Centavos(1)

\* C13 as stated: for every total under 20, every payment method and every
\* text, the plan has exactly one entry.
C13_SmallTotalOneEntry ==
  (PlanKnown /\ amount < Reais(20)) => Len(installments_data) = 1

\* C13 amended: the same for every total above zero and under 20 (a total
\* of zero gives the empty plan).
C13_SmallPositiveTotalOneEntry ==
  (PlanKnown /\ amount > 0 /\ amount < Reais(20)) => Len(installments_data) = 1

C13_Witness ==
  /\ PlanKnown
  /\ payment_method = "cartão crédito"
  /\ text = <<"3"," ","v","e","z","e","s">>
  /\ amount = Reais(20) - Centavos(1)
  /\ Len(installments_data) = 1

\* ultra_fast_category has returned
CategoryKnown ==
  failed_stage = "none" /\ pc \in {"installments", "return", "done"}

\* none of the keywords of the six category rules is in the text
NoCategoryKeyword ==
  ~ContainsAny(text,
     { <<"r","o","u","p","a","s">>, <<"v","e","s","t","u","á","r","i","o">>, <<"i","n","s","u","m","o","s">>, <<"m","a","t","e","r","i","a","l">>, <<"c","o","m","p","r","a","r">>, <<"m","a","t","é","r","i","a">>,
       <<"l","u","z">>, <<"e","n","e","r","g","i","a">>, <<"á","g","u","a">>, <<"g","á","s">>, <<"c","o","m","i","d","a">>, <<"r","e","s","t","a","u","r","a","n","t","e">>, <<"m","e","r","c","a","d","o">>,
       <<"a","l","i","m","e","n","t","a","ç","ã","o">>, <<"t","r","a","n","s","p","o","r","t","e">>, <<"g","a","s","o","l","i","n","a">>, <<"c","o","m","b","u","s","t","í","v","e","l">>,
       <<"m","a","n","u","t","e","n","ç","ã","o">>, <<"g","e","l","a","d","e","i","r","a">>, <<"r","e","p","a","r","o">> })

\* C15: when no category keyword rule matches, the category is 'Insumos'
\* if the cost center is not 'Pessoal' and the catalog has 'Insumos',
\* 'Alimentação' if the cost center is 'Pessoal' and the catalog has
\* 'Alimentação', and 'Outros' in every other case.
C15_CategoryDefault ==
  (CategoryKnown /\ NoCategoryKeyword)
    => category =
         IF cost_center # Pessoal /\ InList("Insumos", user_categories)
           THEN "Insumos"
         ELSE IF cost_center = Pessoal /\ InList("Alimentação", user_categories)
           THEN "Alimentação"
         ELSE "Outros"

C15_Witness ==
  /\ CategoryKnown
  /\ NoCategoryKeyword
  /\ cost_center = <<"L","o","j","a">>
  /\ user_categories = <<"Alimentação", "Insumos">>
  /\ category = "Insumos"

\* ultra_fast_payment_method has returned
PaymentKnown == AmountKnown /\ pc # "payment_method"

\* the keywords of each method, in the order of the claim, and the value
\* each stands for
KeywordOrder ==
  << {<<"c","r","é","d","i","t","o">>}, {<<"d","é","b","i","t","o">>}, {<<"d","i","n","h","e","i","r","o">>}, {<<"p","i","x">>},
     {<<"t","r","a","n","s","f","e","r","ê","n","c","i","a">>, <<"t","e","d">>, <<"d","o","c">>}, {<<"b","o","l","e","t","o">>} >>

MethodOf ==
  <<"cartão crédito", "cartão débito", "dinheiro", "pix", "transferência",
    "boleto">>

\* C16: the payment method is always one of the seven values; among the
\* keywords in the text the earliest in the order crédito, débito,
\* dinheiro, pix, transferência/ted/doc, boleto decides; a text with none
\* of them gives 'indefinida'.
C16_PaymentFirstMatch ==
  PaymentKnown
    => /\ payment_method \in
            {"cartão crédito", "cartão débito", "dinheiro", "pix",
             "transferência", "boleto", "indefinida"}
       /\ \A k \in 1..Len(KeywordOrder) :
            (/\ ContainsAny(text, KeywordOrder[k])
             /\ \A j \in 1..(k - 1) : ~ContainsAny(text, KeywordOrder[j]))
              => payment_method = MethodOf[k]
       /\ (\A k \in 1..Len(KeywordOrder) : ~ContainsAny(text, KeywordOrder[k]))
            => payment_method = "indefinida"

C16_Witness ==
  /\ PaymentKnown
  /\ Contains(text, <<"p","i","x"," ","d","i","n","h","e","i","r","o">>)
  /\ payment_method = "dinheiro"

\* the k-th entry is numbered k, every entry is pending and each entry is
\* due later than the one before it
WellFormedPlan(plan) ==
  \A k \in 1..Len(plan) :
    /\ plan[k].installment_number = k
    /\ plan[k].status = "pending"
    /\ k < Len(plan) => plan[k].due_date < plan[k + 1].due_date

\* C17: every plan returned by any call (single-entry, multi-entry, empty
\* or degraded) has its k-th entry numbered k, its due dates ascending
\* along the list and every entry's status 'pending'.
C17_PlanWellFormed ==
  /\ PlanKnown => WellFormedPlan(installments_data)
  /\ pc = "done" => WellFormedPlan(result.installments)

C17_Witness ==
  /\ Returned
  /\ Len(result.installments) = 12
  /\ result.installments[12].installment_number = 12
  /\ result.installments[11].due_date < result.installments[12].due_date

\* C18: for every text, every non-empty catalog and every cost center the
\* category returned is a member of the caller's catalog or the sentinel
\* 'Outros'.
C18_CategoryInCatalog ==
  (CategoryKnown /\ user_categories # <<>>)
    => (InList(category, user_categories) \/ category = "Outros")

\* the text has a decimal pair
HasPair == \E i \in 1..Len(text) : PairAt(text, i)

\* the text has '<int> reais (e) <int> centavos'
HasReaisCentavos == ReaisCentavosStarts(text) # {}

\* the text has a bare number of 2 to 5 digits between 5 and 10000
HasPlausibleNumber == valid(text) # {}

\* C19: the amount strategies are tried in a fixed order and the first that
\* matches decides: (1) 'mil reais' or '1000 reais' gives 1000.00, (2) a
\* decimal pair, (3) '<int> reais (e) <int> centavos', (4) the largest
\* plausible bare number, (5) the constant fallback.  A text with both
\* '1000 reais' and '87,55' gives 1000.00; a text with '87,55' as its
\* decimal pair and the bare number 900 gives 87.55.
C19_StrategyOrder ==
  AmountKnown
    => /\ ~NoThousandPhrase(text) => amount = Reais(1000)
       /\ (NoThousandPhrase(text) /\ HasPair) => amount = DecimalAmount(text)
       /\ (NoThousandPhrase(text) /\ ~HasPair /\ HasReaisCentavos)
            => amount = ReaisCentavosAmount(text)
       /\ (NoThousandPhrase(text) /\ ~HasPair /\ ~HasReaisCentavos
              /\ HasPlausibleNumber)
            => amount = Reais(Max(valid(text)))
       /\ (NoThousandPhrase(text) /\ ~HasPair /\ ~HasReaisCentavos
              /\ ~HasPlausibleNumber)
            => amount \in {Reais(100), Reais(50)}
       /\ (Contains(text, <<"1","0","0","0"," ","r","e","a","i","s">>) /\ Contains(text, <<"8","7",",","5","5">>))
            => amount = Reais(1000)
       /\ (NoThousandPhrase(text) /\ Contains(text, <<"8","7",",","5","5">>)
              /\ ~Contains(text, <<"1","2",",","5","0">>) /\ Contains(text, <<"9","0","0">>))
            => amount = 87550

C19_Witness ==
  /\ AmountKnown
  /\ Contains(text, <<"8","7",",","5","5">>)
  /\ Contains(text, <<"9","0","0">>)
  /\ HasPlausibleNumber
  /\ amount = 87550

\* C20: for a total of 0 the plan is empty for every payment method and
\* every text; hence a returned record whose amount is 0.00 carries no
\* installments.
C20_ZeroTotalEmptyPlan ==
  /\ (PlanKnown /\ amount = 0) => installments_data = <<>>
  /\ (Returned /\ result.total_amount = 0) => result.installments = <<>>

C20_Witness ==
  /\ Returned
  /\ result.total_amount = 0
  /\ result.payment_method = "cartão crédito"
  /\ result.text = <<"3"," ","v","e","z","e","s">>
  /\ result.installments = <<>>

\* ultra_fast_cost_center has returned
CostCenterKnown == PaymentKnown /\ pc # "cost_center"

\* the positions of the catalog entries other than 'Pessoal' in any case
OtherCenters ==
  { k \in 1..Len(user_cost_centers) : Lower(user_cost_centers[k]) # <<"p","e","s","s","o","a","l">> }

\* those of them whose lower-cased name is in the text
NamedCenters ==
  { k \in OtherCenters : Contains(text, Lower(user_cost_centers[k])) }

\* C21: the cost center is (1) the first catalog entry other than 'Pessoal'
\* whose lower-cased name is in the text, in its catalog spelling;
\* (2) otherwise, when the text has 'insumos' and the catalog has an entry
\* other than 'Pessoal', the first such entry; (3) otherwise 'Pessoal'.
C21_CostCenterSteps ==
  CostCenterKnown
    => cost_center =
         IF NamedCenters # {} THEN user_cost_centers[Min(NamedCenters)]
         ELSE IF Contains(text, <<"i","n","s","u","m","o","s">>) /\ OtherCenters # {}
           THEN user_cost_centers[Min(OtherCenters)]
         ELSE Pessoal

C21_Witness ==
  /\ CostCenterKnown
  /\ text = <<"i","n","s","u","m","o","s"," ","d","a"," ","l","o","j","a">>
  /\ user_cost_centers = << <<"O","b","r","a">>, <<"L","O","J","A">> >>
  /\ cost_center = <<"L","O","J","A">>

\* the keywords of the six category rules, in the order clothing,
\* supplies/materials, utilities, food, transport, maintenance, and the
\* category each rule aims at
RuleKeywords ==
  << {<<"r","o","u","p","a","s">>, <<"v","e","s","t","u","á","r","i","o">>},
     {<<"i","n","s","u","m","o","s">>, <<"m","a","t","e","r","i","a","l">>, <<"c","o","m","p","r","a","r">>, <<"m","a","t","é","r","i","a">>},
     {<<"l","u","z">>, <<"e","n","e","r","g","i","a">>, <<"á","g","u","a">>, <<"g","á","s">>},
     {<<"c","o","m","i","d","a">>, <<"r","e","s","t","a","u","r","a","n","t","e">>, <<"m","e","r","c","a","d","o">>, <<"a","l","i","m","e","n","t","a","ç","ã","o">>},
     {<<"t","r","a","n","s","p","o","r","t","e">>, <<"g","a","s","o","l","i","n","a">>, <<"c","o","m","b","u","s","t","í","v","e","l">>},
     {<<"m","a","n","u","t","e","n","ç","ã","o">>, <<"g","e","l","a","d","e","i","r","a">>, <<"r","e","p","a","r","o">>} >>

RuleTarget ==
  <<"Vestuário", "Insumos", "Contas", "Alimentação", "Transporte",
    "Manutenção">>

\* C22: for each of the six keyword rules, when it is the first rule whose
\* keyword is in the text, the category is the rule's target if the
\* caller's catalog has that name and 'Outros' otherwise.
C22_KeywordRules ==
  (CategoryKnown /\ user_categories # <<>>)
    => \A r \in 1..Len(RuleKeywords) :
         (/\ ContainsAny(text, RuleKeywords[r])
          /\ \A q \in 1..(r - 1) : ~ContainsAny(text, RuleKeywords[q]))
           => category = IF InList(RuleTarget[r], user_categories)
                         THEN RuleTarget[r] ELSE "Outros"

\* C23: a transcript with a digit-separator-digit pattern such as '87x55'
\* is rewritten to '87 reais e 55 centavos' by the normaliser, and the
\* amount then extracted is 87.55.
C23_SeparatorRewritten ==
  (AmountKnown /\ Contains(raw_text, <<"8","7","x","5","5">>))
    => /\ Contains(text, <<"8","7"," ","r","e","a","i","s"," ","e"," ","5","5"," ","c","e","n","t","a","v","o","s">>)
       /\ amount = 87550

\* a credit-card call with installment vocabulary and a total of at least
\* R$ 20.00 whose plan is known
EligibleCall ==
  /\ PlanKnown
  /\ payment_method = "cartão crédito"
  /\ (Contains(text, <<"v","e","z","e","s">>) \/ Contains(text, <<"p","a","r","c","e","l","a">>) \/ Contains(text, <<"x">>))
  /\ amount >= Reais(20)

\* none of the explicit word or digit rules for 2..10 matches the text
NoExplicitCount ==
  ~ContainsAny(text,
     {<<"d","u","a","s">>, <<"d","o","i","s">>, <<"2","x">>, <<"2"," ","v","e","z","e","s">>, <<"t","r","ê","s">>,
       <<"t","r","e","s">>, <<"3","x">>, <<"3"," ","v","e","z","e","s">>, <<"q","u","a","t","r","o">>, <<"4","x">>,
       <<"4"," ","v","e","z","e","s">>, <<"c","i","n","c","o">>, <<"5","x">>,
       <<"5"," ","v","e","z","e","s">>, <<"s","e","i","s">>, <<"6","x">>, <<"6"," ","v","e","z","e","s">>, <<"s","e","t","e">>, <<"7","x">>,
       <<"7"," ","v","e","z","e","s">>, <<"o","i","t","o">>, <<"8","x">>, <<"8"," ","v","e","z","e","s">>, <<"n","o","v","e">>, <<"9","x">>,
       <<"9"," ","v","e","z","e","s">>, <<"d","e","z">>, <<"1","0","x">>,
       <<"1","0"," ","v","e","z","e","s">> })

\* the digits captured before 'vezes', 'parcela' or 'x' (leftmost match)
CapturedDigits ==
  LET i == Min(CountStarts(text)) IN NumVal(text, i, DigitRunEnd(text, i))

\* C24: for an eligible call in which no explicit rule for 2..10 matches, a
\* captured digit count d gives d clamped into [2,12] entries (d > 12 gives
\* 12), and when no count is captured the plan is a single immediate entry.
C24_CountClamped ==
  (EligibleCall /\ NoExplicitCount)
    => IF CountStarts(text) = {}
       THEN Len(installments_data) = 1 /\ installments_data[1].due_date = 0
       ELSE Len(installments_data) = Max({2, Min({CapturedDigits, 12})})

\* C25: over any interleaving of get_model calls whisper.load_model runs at
\* most once and every caller is handed the same model instance.
C25_LoadedOnce ==
  /\ load_count <= 1
  /\ \A c, d \in Callers :
       (callers[c].got # 0 /\ callers[d].got # 0)
         => callers[c].got = callers[d].got

\* the walk as the claim words it, over the words of the normalised text:
\* a number word other than 'mil' adds its value to partial; 'mil' adds
\* max(partial, 1) * 1000 to total and resets partial; 'e' changes nothing;
\* a token with 'reais' or 'real' in it moves partial into total; any other
\* token changes nothing; the result is total plus what is left in partial
RECURSIVE TokenWalk(_, _, _)
TokenWalk(tokens, partial, total) ==
  IF tokens = <<>> THEN total + partial
  ELSE LET w == Head(tokens)
       IN  IF w = <<"m","i","l">>
             THEN TokenWalk(Tail(tokens), 0, total + Max({partial, 1}) * 1000)
           ELSE IF \E p \in number_words : p[1] = w
             THEN TokenWalk(Tail(tokens),
                            partial + (CHOOSE p \in number_words : p[1] = w)[2],
                            total)
           ELSE IF w = <<"e">> THEN TokenWalk(Tail(tokens), partial, total)
           ELSE IF Contains(w, <<"r","e","a","i","s">>) \/ Contains(w, <<"r","e","a","l">>)
             THEN TokenWalk(Tail(tokens), 0, total + partial)
           ELSE TokenWalk(Tail(tokens), partial, total)

\* C26: for a text without digits extract_amount is the token walk with
\* (partial, total) described above; 'dois mil e quinhentos reais' gives
\* 2500 and 'mil reais' gives 1000.
C26_WordWalk ==
  pc = "extracted"
    => /\ amount = Reais(TokenWalk(Split(text), 0, 0))
       /\ transcript = <<"d","o","i","s"," ","m","i","l"," ","e"," ","q","u","i","n","h","e","n","t","o","s"," ","r","e","a","i","s">> => amount = Reais(2500)
       /\ transcript = <<"m","i","l"," ","r","e","a","i","s">> => amount = Reais(1000)

C26_Witness ==
  /\ pc = "extracted"
  /\ transcript = <<"d","o","i","s"," ","m","i","l"," ","e"," ","q","u","i","n","h","e","n","t","o","s"," ","r","e","a","i","s">>
  /\ text = <<"d","o","i","s"," ","m","i","l"," ","e"," ","q","u","i","n","h","e","n","t","o","s"," ","r","e","a","i","s","s">>
  /\ amount = Reais(2500)

\* the standalone integers of 2 to 5 digits of the text (a whole run of
\* digits with no letter, digit or underscore on either side) whose value
\* lies in [5, 10000]
PlausibleNumbers ==
  { n \in { NumVal(text, r[1], r[2]) :
              r \in { q \in (1..Len(text)) \X (1..Len(text)) :
                        /\ q[1] <= q[2]
                        /\ \A k \in q[1]..q[2] : IsDigit(text[k])
                        /\ ~IsWordChar(CharAt(text, q[1] - 1))
                        /\ ~IsWordChar(CharAt(text, q[2] + 1))
                        /\ q[2] - q[1] + 1 \in 2..5 } } :
      n >= 5 /\ n <= 10000 }

\* C27: when strategies 1 to 3 do not match and the text has a standalone
\* integer of 2 to 5 digits within [5, 10000], the amount is the largest of
\* those integers; integers outside the range or of another length are
\* not counted.
C27_LargestNumber ==
  (AmountKnown /\ NoThousandPhrase(text) /\ ~HasPair /\ ~HasReaisCentavos
     /\ PlausibleNumbers # {})
    => amount = Reais(Max(PlausibleNumbers))

C27_Witness ==
  /\ AmountKnown
  /\ Contains(text, <<"2","0","0","0","0">>)
  /\ Contains(text, <<"1","2"," ","v","e","z","e","s">>)
  /\ PlausibleNumbers = {12}
  /\ amount = Reais(12)

\* C28: in every plan of more than one entry all the entries carry the same
\* amount, the total over N rounded to the cent; the last entry is not
\* adjusted to take the rounding remainder.
C28_EqualShares ==
  (PlanKnown /\ Len(installments_data) > 1)
    => LET n == Len(installments_data)
           share == installments_data[1].amount
       IN  /\ \A k \in 1..n : installments_data[k].amount = share
           /\ share % 10 = 0
           /\ 2 * (n * share - amount) <= 10 * n
           /\ 2 * (amount - n * share) <= 10 * n

C28_Witness ==
  /\ PlanKnown
  /\ amount = Reais(100)
  /\ Len(installments_data) = 3
  /\ installments_data[3].amount = 33330
  /\ installments_data[1].amount = 33330

\* C29: the normalised text of any non-empty transcript is case-folded,
\* has its diacritics stripped and has every run of whitespace collapsed
\* to a single blank, in the pipeline and in the record returned.
C29_NormalForm ==
  (Normalized /\ raw_text # <<>>)
    => /\ text = Lower(text)
       /\ text = StripDiacritics(text)
       /\ text = CollapseSpaces(text)
       /\ pc = "done" => result.text = text

\* the digits of the counts 1 to 12
Numerals ==
  << <<"1">>, <<"2">>, <<"3">>, <<"4">>, <<"5">>, <<"6">>, <<"7">>, <<"8">>, <<"9">>, <<"1","0">>, <<"1","1">>, <<"1","2">> >>

\* C30: for 'cartão crédito', a total of at least 20 and every n in 2..12,
\* a text whose only count expression is the digits of n followed by
\* ' vezes' or by 'x' gives exactly n installments.
C30_StatedCount ==
  EligibleCall
    => \A n \in 2..12 :
         (text = Numerals[n] \o <<"x">> \/ text = Numerals[n] \o <<" ","v","e","z","e","s">>)
           => Len(installments_data) = n

=============================================================================
